---- MODULE Spec2Model ----
(***************************************************************************)
(* Aggregated SPDZ REST API (src/src/rest_api/SpdzApiAggregate.js): the    *)
(* fan-out of connect / check / disconnect / consume / send over a list of *)
(* SPDZ proxies, the clientId store it reads and writes, and               *)
(* allProxiesConnected.                                                    *)
(*                                                                         *)
(* A public function runs synchronously up to its return: the map over the *)
(* list starts every per-proxy request before any response is handled.     *)
(* Each response is handled later, one handler at a time, in any order.    *)
(* Promise.all settles in the microtasks that follow the handler that      *)
(* decides it, before any other response is handled, so its settlement is  *)
(* part of that handler's step.                                            *)
(***************************************************************************)
EXTENDS Integers, Sequences, FiniteSets, TLC

\* ------------------------------------------------------------------ bounds

\* Longest list of proxies passed to a public function.
MaxLen == 3

\* ---------------------------------------------------------------- the data

\* The proxy urls a caller may name.
Urls == {"A", "B", "C"}
\* A list entry without the url key (an object list only).
NoUrl == "nourl"
\* The client ids connectProxyToEngine may resolve to.
Ids == {"id1", "id2"}

\* ProxyStatusCodes (./ProxyStatusCodes).
Connected == "Connected"
Disconnected == "Disconnected"
Failure == "Failure"

\* Sequences over S of length 0..n.
SeqsUpTo(S, n) == UNION {[1..k -> S] : k \in 0..n}
\* spdzProxyUrlList of connectToSPDZ and checkProxies: url strings.
UrlLists == SeqsUpTo(Urls, MaxLen)
\* spdzProxyList of the other three: objects that may lack the url key.
ProxyLists == SeqsUpTo(Urls \cup {NoUrl}, MaxLen)

\* The value of a promise that has not settled, or a response not yet here.
NoValue == [kind |-> "none"]
\* What a proxy answers to a request.
Ok == [kind |-> "ok"]
OkId(id) == [kind |-> "ok", id |-> id]
Error == [kind |-> "error"]
NoContent == [kind |-> "nocontent"]

\* A per-proxy promise: st is "pending", "fulfilled" or "rejected"; sent tells
\* whether a request went to the proxy for it, and sid is the client id the
\* request carried (a set of at most one id); resp is the proxy's answer and
\* val is what the promise settled with.
Pending(sent, sid) ==
  [st |-> "pending", sent |-> sent, sid |-> sid, resp |-> NoValue, val |-> NoValue]
Fulfilled(s, r, v) == [s EXCEPT !.st = "fulfilled", !.resp = r, !.val = v]
Rejected(s, r, v) == [s EXCEPT !.st = "rejected", !.resp = r, !.val = v]
\* Promise.resolve(v) and Promise.reject(v): settled at creation, no request.
PromiseResolve(v) ==
  [st |-> "fulfilled", sent |-> FALSE, sid |-> {}, resp |-> NoValue, val |-> v]
PromiseReject(v) ==
  [st |-> "rejected", sent |-> FALSE, sid |-> {}, resp |-> NoValue, val |-> v]

\* Errors the aggregate functions reject with.
ValidationError == [err |-> "Each spdzProxyList entry must contain keys: url."]
NotConnectedError(url) == [err |-> "Not connected to SPDZ for proxy", url |-> url]
TransportError == [err |-> "transport"]
NoContentError == [err |-> "NoContentError"]
CryptoError == [err |-> "decrypt"]

\* No call overlaps the current one.
NoCall ==
  [op |-> "none", list |-> <<>>, sub |-> <<>>,
   promise |-> [state |-> "none", value |-> NoValue]]

VARIABLES
  clientIds,   \* ./ClientIds: url -> client id, for the urls that have one
  op,          \* the public function called last ("none" before the first)
  proxyList,   \* its list argument
  encrypted,   \* its encrypted argument (consumeDataFromProxies)
  before,      \* clientIds as it was when the function was called (for
               \* connectToSPDZ, which resets it: the urls that had an id)
  sub,         \* the per-proxy promises the function built, by position
  promise,     \* the promise the function returned: [state, value]
  repeatOf,    \* the call before, when this call repeats it (see last)
  connected,   \* what allProxiesConnected returned for the value of the call before
  last,        \* between calls: the disconnectFromSPDZ call that resolved last,
               \* as [list, value, sent: the positions it sent a request for]
  earlier      \* a call that was still pending when the caller called
               \* connectToSPDZ again, as [op, list, sub, promise]; NoCall
               \* when the caller waited

vars ==
  <<clientIds, op, proxyList, encrypted, before, sub, promise, repeatOf, connected, last,
    earlier>>

\* ------------------------------------------------------------ ./ClientIds

clientIdExists(store, url) == url \in DOMAIN store
\* The stored id, as a set: empty (undefined) when there is none.
getClientId(store, url) == IF url \in DOMAIN store THEN {store[url]} ELSE {}
resetClientIds == <<>>
storeClientId(store, url, id) ==
  [u \in DOMAIN store \cup {url} |-> IF u = url THEN id ELSE store[u]]
removeClientId(store, url) == [u \in DOMAIN store \ {url} |-> store[u]]

\* ------------------------------------------------- ../utility helpers

\* verifyRequiredKeys(list, 'url'): every entry has the key.
verifyRequiredKeys(list) == \A i \in 1..Len(list) : list[i] # NoUrl

\* --------------------------------------------------------------- Promise.all

Positions(s) == 1..Len(s)
FirstRejected(s) ==
  CHOOSE i \in Positions(s) :
    s[i].st = "rejected" /\ \A j \in 1..(i - 1) : s[j].st # "rejected"
Values(s) == [i \in Positions(s) |-> s[i].val]

\* Promise.all rejecting with the rejection of the highest position.
PromiseAllLastRejected(s) ==
  IF \E i \in Positions(s) : s[i].st = "rejected"
    THEN [state |-> "rejected",
          value |-> s[CHOOSE i \in Positions(s) :
                        s[i].st = "rejected"
                        /\ \A j \in Positions(s) : j > i => s[j].st # "rejected"].val]
  ELSE IF \A i \in Positions(s) : s[i].st = "fulfilled"
    THEN [state |-> "resolved", value |-> Values(s)]
  ELSE [state |-> "pending", value |-> NoValue]
\* Promise.all(list) right after the list was built: promises rejected at
\* creation reject it, the lowest position first; with nothing pending it
\* resolves to the values in list order.
PromiseAll(s) ==
  IF \E i \in Positions(s) : s[i].st = "rejected"
    THEN [state |-> "rejected", value |-> s[FirstRejected(s)].val]
  ELSE IF \A i \in Positions(s) : s[i].st = "fulfilled"
    THEN [state |-> "resolved", value |-> Values(s)]
  ELSE [state |-> "pending", value |-> NoValue]

\* Promise.all after the promise at position i settled: the first rejection
\* rejects it, the last fulfilment resolves it to the values in list order.
PromiseAllSettle(p, s, i) ==
  IF p.state # "pending" THEN p
  ELSE IF s[i].st = "rejected" THEN [state |-> "rejected", value |-> s[i].val]
  ELSE IF \A j \in Positions(s) : s[j].st = "fulfilled"
    THEN [state |-> "resolved", value |-> Values(s)]
  ELSE p

\* A public function is called only after the caller took the value of the
\* call before.
Idle == promise.state = "none"

\* What every call records on entry; pendingCall is the call it overlaps.
CalledWhile(name, list, enc, pendingCall) ==
  /\ op' = name
  /\ proxyList' = list
  /\ encrypted' = enc
  /\ before' = IF name = "connect" THEN [u \in DOMAIN clientIds |-> "session"]
                                    ELSE clientIds
  /\ connected' = {}
  /\ last' = {}
  /\ earlier' = pendingCall
Called(name, list, enc) == CalledWhile(name, list, enc, NoCall)

Init ==
  /\ clientIds = <<>>
  /\ op = "none"
  /\ proxyList = <<>>
  /\ encrypted = FALSE
  /\ before = <<>>
  /\ sub = <<>>
  /\ promise = [state |-> "none", value |-> NoValue]
  /\ repeatOf = {}
  /\ connected = {}
  /\ last = {}
  /\ earlier = NoCall

\* -------------------------------------------------------------- connectToSPDZ

\* A connection outcome; id is the 0-based position in the list.
ConnectedOutcome(i, id) == [id |-> i - 1, status |-> Connected, clientId |-> id]
ConnectFailedOutcome(i) == [id |-> i - 1, status |-> Failure]

\* connectToSPDZ without the reset.
ConnectStartKeep(store) == store
\* The store connectToSPDZ starts from.
ConnectStart(store) == resetClientIds
\* The then handler without storeClientId.
ConnectStoreSkipped(store, url, id) == store
\* The then handler storing every id under one key.
ConnectStoreFixedKey(store, url, id) == storeClientId(store, "A", id)
\* The store after connectProxyToEngine resolved with id for url.
ConnectStore(store, url, id) == storeClientId(store, url, id)

\* The catch handler rethrowing instead of returning an outcome.
ConnectCatchRethrow(s, i) == Rejected(s, Error, TransportError)
\* What the promise of position i settles with when connectProxyToEngine
\* rejected: the catch handler returns the Failure outcome.
ConnectCatchSettle(s, i) == Fulfilled(s, Error, ConnectFailedOutcome(i))

\* The synchronous part of connectToSPDZ: the reset, then one request per url.
ConnectRound(list, pendingCall) ==
  /\ CalledWhile("connect", list, FALSE, pendingCall)
  /\ clientIds' = ConnectStart(clientIds)
  /\ sub' = [i \in 1..Len(list) |-> Pending(TRUE, {})]
  /\ promise' = PromiseAll(sub')
  /\ repeatOf' = {}

connectToSPDZ(list) == Idle /\ ConnectRound(list, NoCall)

\* connectProxyToEngine for position i resolved with id.
ConnectThen(i, id) ==
  /\ op = "connect"
  /\ promise.state = "pending"
  /\ sub[i].st = "pending"
  /\ clientIds' = ConnectStore(clientIds, proxyList[i], id)
  /\ sub' = [sub EXCEPT ![i] = Fulfilled(@, OkId(id), ConnectedOutcome(i, id))]
  /\ promise' = PromiseAllSettle(promise, sub', i)
  /\ UNCHANGED <<op, proxyList, encrypted, before, repeatOf, connected, last, earlier>>

\* connectProxyToEngine for position i rejected.
ConnectCatch(i) ==
  /\ op = "connect"
  /\ promise.state = "pending"
  /\ sub[i].st = "pending"
  /\ sub' = [sub EXCEPT ![i] = ConnectCatchSettle(@, i)]
  /\ promise' = PromiseAllSettle(promise, sub', i)
  /\ UNCHANGED <<clientIds, op, proxyList, encrypted, before, repeatOf, connected, last, earlier>>

\* --------------------------------------------------------------- checkProxies

\* An outcome numbered from 1.
CheckOutcomeOneBased(i, status) == [id |-> i, status |-> status]
CheckOutcome(i, status) == [id |-> i - 1, status |-> status]

\* checkProxies reporting a url without client id as Disconnected.
CheckTaskDisconnected(store, list, i) ==
  IF ~clientIdExists(store, list[i])
    THEN PromiseResolve(CheckOutcome(i, Disconnected))
    ELSE Pending(TRUE, getClientId(store, list[i]))
\* The promise checkProxies builds for position i.
CheckTask(store, list, i) ==
  IF ~clientIdExists(store, list[i])
    THEN PromiseResolve(CheckOutcome(i, Failure))
    ELSE Pending(TRUE, getClientId(store, list[i]))

\* The outcome of position i once checkEngineConnection resolved (ok) or
\* rejected.
CheckResult(i, ok) == CheckOutcome(i, IF ok THEN Connected ELSE Disconnected)

checkProxies(list) ==
  /\ Idle
  /\ Called("check", list, FALSE)
  /\ sub' = [i \in 1..Len(list) |-> CheckTask(clientIds, list, i)]
  /\ promise' = PromiseAll(sub')
  /\ repeatOf' = {}
  /\ UNCHANGED clientIds

\* The catch handler dropping the client id of a proxy that did not answer.
CheckStoreRemoveOnFailure(store, url, ok) ==
  IF ok THEN store ELSE removeClientId(store, url)
\* The store after checkEngineConnection settled for url: the then and catch
\* handlers only build an outcome.
CheckStore(store, url, ok) == store

\* checkEngineConnection for position i resolved (ok) or rejected.
CheckSettled(i, ok) ==
  /\ op = "check"
  /\ promise.state = "pending"
  /\ sub[i].st = "pending"
  /\ clientIds' = CheckStore(clientIds, proxyList[i], ok)
  /\ sub' = [sub EXCEPT ![i] = Fulfilled(@, IF ok THEN Ok ELSE Error, CheckResult(i, ok))]
  /\ promise' = PromiseAllSettle(promise, sub', i)
  /\ UNCHANGED <<op, proxyList, encrypted, before, repeatOf, connected, last, earlier>>

\* --------------------------------------------------------- disconnectFromSPDZ

\* What a function returns for a list with an entry that lacks url.
RejectInvalid == [sub |-> <<>>, promise |-> [state |-> "rejected", value |-> ValidationError]]
\* What it returns for the per-proxy promises s.
ReturnAll(s) == [sub |-> s, promise |-> PromiseAll(s)]

DisconnectOutcome(i) == [id |-> i - 1, status |-> Disconnected]

\* disconnectFromSPDZ asking the proxy whether or not it has a client id.
DisconnectTaskAlways(store, list, i) == Pending(TRUE, getClientId(store, list[i]))
\* disconnectFromSPDZ reporting a url without client id as Failure.
DisconnectTaskFailure(store, list, i) ==
  IF ~clientIdExists(store, list[i])
    THEN PromiseResolve([id |-> i - 1, status |-> Failure])
    ELSE Pending(TRUE, getClientId(store, list[i]))
\* The promise disconnectFromSPDZ builds for position i.
DisconnectTask(store, list, i) ==
  IF ~clientIdExists(store, list[i])
    THEN PromiseResolve(DisconnectOutcome(i))
    ELSE Pending(TRUE, getClientId(store, list[i]))

\* The synchronous part of disconnectFromSPDZ: the promises and the returned
\* promise.
DisconnectRun(store, list) ==
  IF ~verifyRequiredKeys(list)
    THEN RejectInvalid
    ELSE ReturnAll([i \in 1..Len(list) |-> DisconnectTask(store, list, i)])

\* The catch handler without removeClientId.
DisconnectCleanupOnSuccess(store, url, ok) ==
  IF ok THEN removeClientId(store, url) ELSE store
\* The store after disconnectProxyFromEngine settled for url; ok tells whether
\* it resolved. Both handlers remove the client id.
DisconnectCleanup(store, url, ok) == removeClientId(store, url)

disconnectFromSPDZ(list) ==
  /\ Idle
  /\ Called("disconnect", list, FALSE)
  /\ repeatOf' = {l \in last : l.list = list}
  /\ sub' = DisconnectRun(clientIds, list).sub
  /\ promise' = DisconnectRun(clientIds, list).promise
  /\ UNCHANGED clientIds

\* disconnectProxyFromEngine for position i resolved (ok) or rejected.
DisconnectSettled(i, ok) ==
  /\ op = "disconnect"
  /\ promise.state = "pending"
  /\ sub[i].st = "pending"
  /\ clientIds' = DisconnectCleanup(clientIds, proxyList[i], ok)
  /\ sub' = [sub EXCEPT ![i] = Fulfilled(@, IF ok THEN Ok ELSE Error, DisconnectOutcome(i))]
  /\ promise' = PromiseAllSettle(promise, sub', i)
  /\ UNCHANGED <<op, proxyList, encrypted, before, repeatOf, connected, last, earlier>>

\* ----------------------------------------------------- consumeDataFromProxies

\* The bytes the proxy at url returns to the request made for position i.
Payload(url, i) == [from |-> url, request |-> i - 1]
\* proxy.encryptionKey of a list entry.
EncryptionKey(entry) == [keyOf |-> entry]
\* ../crypto decrypt(key, bytes), when it does not throw.
decrypt(key, bytes) == [plain |-> bytes, key |-> key]

\* decrypt with the key of the first entry of the list.
ConsumeValueFirstKey(list, enc, i) ==
  IF enc THEN decrypt(EncryptionKey(list[1]), Payload(list[i], i))
         ELSE Payload(list[i], i)
\* What the then handler of position i returns for the proxy's bytes.
ConsumeValue(list, enc, i) ==
  IF enc THEN decrypt(EncryptionKey(list[i]), Payload(list[i], i))
         ELSE Payload(list[i], i)

\* A no-content answer rejected like any other failure.
ConsumeFailureConflated(s, noContent) ==
  Rejected(s, IF noContent THEN NoContent ELSE Error, TransportError)
\* What the promise of a position settles with when consumeDataFromProxy
\* rejected: NoContentError when the proxy has no data yet.
ConsumeFailure(s, noContent) ==
  IF noContent THEN Rejected(s, NoContent, NoContentError)
               ELSE Rejected(s, Error, TransportError)

\* consumeDataFromProxies skipping a url without client id.
ConsumeTaskSkipMissing(store, list, i) ==
  IF ~clientIdExists(store, list[i])
    THEN PromiseResolve(NoValue)
    ELSE Pending(TRUE, getClientId(store, list[i]))
\* The promise consumeDataFromProxies builds for position i.
ConsumeTask(store, list, i) ==
  IF ~clientIdExists(store, list[i])
    THEN PromiseReject(NotConnectedError(list[i]))
    ELSE Pending(TRUE, getClientId(store, list[i]))

\* The synchronous part of consumeDataFromProxies.
ConsumeRun(store, list) ==
  IF ~verifyRequiredKeys(list)
    THEN RejectInvalid
    ELSE ReturnAll([i \in 1..Len(list) |-> ConsumeTask(store, list, i)])

\* Responses are followed while the returned promise is pending: once it has
\* rejected, what the other proxies answer reaches no one.
InFlight == promise.state = "pending"

consumeDataFromProxies(list, enc) ==
  /\ Idle
  /\ Called("consume", list, enc)
  /\ repeatOf' = {}
  /\ sub' = ConsumeRun(clientIds, list).sub
  /\ promise' = ConsumeRun(clientIds, list).promise
  /\ UNCHANGED clientIds

\* consumeDataFromProxy for position i resolved with the proxy's bytes;
\* decryptOk tells whether decrypt, if it runs, returns.
ConsumeThenStep(i, decryptOk) ==
  /\ op = "consume"
  /\ sub[i].st = "pending"
  /\ encrypted \/ decryptOk
  /\ sub' = [sub EXCEPT ![i] =
               IF encrypted /\ ~decryptOk
                 THEN Rejected(@, Ok, CryptoError)
                 ELSE Fulfilled(@, Ok, ConsumeValue(proxyList, encrypted, i))]
  /\ promise' = PromiseAllSettle(promise, sub', i)
  /\ UNCHANGED <<clientIds, op, proxyList, encrypted, before, repeatOf, connected, last, earlier>>

ConsumeThen(i, decryptOk) == InFlight /\ ConsumeThenStep(i, decryptOk)

\* consumeDataFromProxy for position i rejected: no content yet, or an error.
ConsumeRejectedStep(i, noContent) ==
  /\ op = "consume"
  /\ sub[i].st = "pending"
  /\ sub' = [sub EXCEPT ![i] = ConsumeFailure(@, noContent)]
  /\ promise' = PromiseAllSettle(promise, sub', i)
  /\ UNCHANGED <<clientIds, op, proxyList, encrypted, before, repeatOf, connected, last, earlier>>

ConsumeRejected(i, noContent) == InFlight /\ ConsumeRejectedStep(i, noContent)

\* -------------------------------------------------------- sendInputsToProxies

Ack == [ack |-> TRUE]

\* sendInputsToProxies skipping a url without client id.
SendTaskSkipMissing(store, list, i) ==
  IF ~clientIdExists(store, list[i])
    THEN PromiseResolve(NoValue)
    ELSE Pending(TRUE, getClientId(store, list[i]))
\* The promise sendInputsToProxies builds for position i.
SendTask(store, list, i) ==
  IF ~clientIdExists(store, list[i])
    THEN PromiseReject(NotConnectedError(list[i]))
    ELSE Pending(TRUE, getClientId(store, list[i]))

\* sendInputsToProxies without the verifyRequiredKeys guard.
SendRunUnvalidated(store, list) ==
  ReturnAll([i \in 1..Len(list) |-> SendTask(store, list, i)])
\* The synchronous part of sendInputsToProxies.
SendRun(store, list) ==
  IF ~verifyRequiredKeys(list)
    THEN RejectInvalid
    ELSE ReturnAll([i \in 1..Len(list) |-> SendTask(store, list, i)])

sendInputsToProxies(list) ==
  /\ Idle
  /\ Called("send", list, FALSE)
  /\ repeatOf' = {}
  /\ sub' = SendRun(clientIds, list).sub
  /\ promise' = SendRun(clientIds, list).promise
  /\ UNCHANGED clientIds

\* sendDataToProxy for position i resolved (ok) or rejected.
SendSettledStep(i, ok) ==
  /\ op = "send"
  /\ sub[i].st = "pending"
  /\ sub' = [sub EXCEPT ![i] =
               IF ok THEN Fulfilled(@, Ok, Ack) ELSE Rejected(@, Error, TransportError)]
  /\ promise' = PromiseAllSettle(promise, sub', i)
  /\ UNCHANGED <<clientIds, op, proxyList, encrypted, before, repeatOf, connected, last, earlier>>

SendSettled(i, ok) == InFlight /\ SendSettledStep(i, ok)

\* -------------------------------------------------------- allProxiesConnected

\* A JavaScript value of a property lookup: undefined, or a number.
Undefined == [type |-> "undefined"]
Number(n) == [type |-> "number", value |-> n]
\* list.size of a JavaScript Array: arrays have length, and no size.
ArraySize(list) == Undefined
ArrayLength(list) == Number(Len(list))
IsConnected(outcome) == outcome.status = Connected

allProxiesConnected(list) ==
  IF ArraySize(list) = Number(0)
    THEN FALSE
    ELSE Number(Len(SelectSeq(list, IsConnected))) = ArrayLength(list)

\* The operations that resolve to a list of status outcomes.
StatusOps == {"connect", "check", "disconnect"}

\* What is left of a call once the caller has taken its value: the store, and
\* the disconnectFromSPDZ call that resolved last.
Forget ==
  /\ last' = IF op = "disconnect" /\ promise.state = "resolved"
               THEN {[list |-> proxyList, value |-> promise.value,
                      sent |-> {i \in Positions(sub) : sub[i].sent}]}
               ELSE {}
  /\ op' = "none"
  /\ proxyList' = <<>>
  /\ encrypted' = FALSE
  /\ before' = <<>>
  /\ sub' = <<>>
  /\ promise' = [state |-> "none", value |-> NoValue]
  /\ repeatOf' = {}
  /\ earlier' = NoCall
  /\ UNCHANGED clientIds

\* The caller's then handler passes the resolved outcome list to
\* allProxiesConnected, as in the example of connectToSPDZ.
AllProxiesConnectedCall ==
  /\ promise.state = "resolved"
  /\ earlier.promise.state # "pending"
  /\ op \in StatusOps
  /\ connected' = {allProxiesConnected(promise.value)}
  /\ Forget

\* ------------------------------------------------------------------ the caller

\* The caller's then/catch takes the settled value and does nothing with it.
Return ==
  /\ promise.state \in {"resolved", "rejected"}
  /\ earlier.promise.state # "pending"
  /\ connected' = {}
  /\ Forget

\* The caller calls a public function, or the response of one proxy is handled,
\* or the caller takes the settled value.
Next ==
  \/ Idle /\ \E list \in UrlLists : connectToSPDZ(list)
  \/ Idle /\ \E list \in UrlLists : checkProxies(list)
  \/ Idle /\ \E list \in ProxyLists : disconnectFromSPDZ(list)
  \/ Idle /\ \E list \in ProxyLists, enc \in BOOLEAN : consumeDataFromProxies(list, enc)
  \/ Idle /\ \E list \in ProxyLists : sendInputsToProxies(list)
  \/ \E i \in Positions(sub), id \in Ids : ConnectThen(i, id)
  \/ \E i \in Positions(sub) : ConnectCatch(i)
  \/ \E i \in Positions(sub), ok \in BOOLEAN : CheckSettled(i, ok)
  \/ \E i \in Positions(sub), ok \in BOOLEAN : DisconnectSettled(i, ok)
  \/ \E i \in Positions(sub), decryptOk \in BOOLEAN : ConsumeThen(i, decryptOk)
  \/ \E i \in Positions(sub), noContent \in BOOLEAN : ConsumeRejected(i, noContent)
  \/ \E i \in Positions(sub), ok \in BOOLEAN : SendSettled(i, ok)
  \/ AllProxiesConnectedCall
  \/ Return

Spec == Init /\ [][Next]_vars

\* ------------------------------------------- every proxy eventually answers

\* The response of one proxy to a connect, check or disconnect request is
\* handled.
StatusHandled ==
  \E i \in Positions(sub) :
    \/ \E id \in Ids : ConnectThen(i, id)
    \/ ConnectCatch(i)
    \/ \E ok \in BOOLEAN : CheckSettled(i, ok)
    \/ \E ok \in BOOLEAN : DisconnectSettled(i, ok)

\* The three status functions alone.
NextStatus ==
  \/ Idle /\ \E list \in UrlLists : connectToSPDZ(list)
  \/ Idle /\ \E list \in UrlLists : checkProxies(list)
  \/ Idle /\ \E list \in ProxyLists : disconnectFromSPDZ(list)
  \/ \E i \in Positions(sub), id \in Ids : ConnectThen(i, id)
  \/ \E i \in Positions(sub) : ConnectCatch(i)
  \/ \E i \in Positions(sub), ok \in BOOLEAN : CheckSettled(i, ok)
  \/ \E i \in Positions(sub), ok \in BOOLEAN : DisconnectSettled(i, ok)
  \/ AllProxiesConnectedCall
  \/ Return

\* Every request to a proxy settles: while a request is pending, a response
\* (or the failure of the request) is eventually handled.
SpecFair == Init /\ [][NextStatus]_vars /\ WF_sub(StatusHandled)

\* ------------------------------------- responses after the call has rejected

\* The returned promise has rejected while requests are still out: their
\* handlers run all the same and Promise.all ignores what they settle with.
Late == promise.state = "rejected"
ConsumeThenLate(i, decryptOk) == Late /\ ConsumeThenStep(i, decryptOk)
ConsumeRejectedLate(i, noContent) == Late /\ ConsumeRejectedStep(i, noContent)
SendSettledLate(i, ok) == Late /\ SendSettledStep(i, ok)

\* The stores a connectToSPDZ round can leave.
SessionStores == UNION {[S -> {"id1"}] : S \in SUBSET Urls}

\* consumeDataFromProxies and sendInputsToProxies on a store left by a
\* connectToSPDZ round, every response followed to the end.
InitLate ==
  /\ clientIds \in SessionStores
  /\ op = "none"
  /\ proxyList = <<>>
  /\ encrypted = FALSE
  /\ before = <<>>
  /\ sub = <<>>
  /\ promise = [state |-> "none", value |-> NoValue]
  /\ repeatOf = {}
  /\ connected = {}
  /\ last = {}
  /\ earlier = NoCall

NextLate ==
  \/ Idle /\ \E list \in ProxyLists, enc \in BOOLEAN : consumeDataFromProxies(list, enc)
  \/ Idle /\ \E list \in ProxyLists : sendInputsToProxies(list)
  \/ \E i \in Positions(sub), decryptOk \in BOOLEAN : ConsumeThen(i, decryptOk)
  \/ \E i \in Positions(sub), noContent \in BOOLEAN : ConsumeRejected(i, noContent)
  \/ \E i \in Positions(sub), ok \in BOOLEAN : SendSettled(i, ok)
  \/ \E i \in Positions(sub), decryptOk \in BOOLEAN : ConsumeThenLate(i, decryptOk)
  \/ \E i \in Positions(sub), noContent \in BOOLEAN : ConsumeRejectedLate(i, noContent)
  \/ \E i \in Positions(sub), ok \in BOOLEAN : SendSettledLate(i, ok)
  \/ Return

SpecLate == InitLate /\ [][NextLate]_vars

\* -------------------------------------------- connectToSPDZ called too early

MaxOverlapLen == 1
OverlapLists == SeqsUpTo(Urls, MaxOverlapLen)

\* A connectToSPDZ or disconnectFromSPDZ call is pending and overlaps no other.
Overlappable ==
  /\ promise.state = "pending"
  /\ op \in {"connect", "disconnect"}
  /\ earlier = NoCall

\* The caller calls connectToSPDZ without waiting for the pending call: the
\* reset and the new requests run while the requests of that call are out.
connectToSPDZWhilePending(list) ==
  /\ Overlappable
  /\ ConnectRound(list, [op |-> op, list |-> proxyList, sub |-> sub, promise |-> promise])

\* The earlier call after the promise at position i settled as s.
EarlierSettled(i, s) ==
  [earlier EXCEPT !.sub[i] = s,
                  !.promise = PromiseAllSettle(@, [earlier.sub EXCEPT ![i] = s], i)]
EarlierPending(name, i) ==
  /\ earlier.op = name
  /\ earlier.promise.state = "pending"
  /\ earlier.sub[i].st = "pending"

\* The handlers of the earlier call; they are the same closures, so they
\* write the same store.
EarlierConnectThen(i, id) ==
  /\ EarlierPending("connect", i)
  /\ clientIds' = ConnectStore(clientIds, earlier.list[i], id)
  /\ earlier' = EarlierSettled(i, Fulfilled(earlier.sub[i], OkId(id), ConnectedOutcome(i, id)))
  /\ UNCHANGED <<op, proxyList, encrypted, before, sub, promise, repeatOf, connected, last>>

EarlierConnectCatch(i) ==
  /\ EarlierPending("connect", i)
  /\ earlier' = EarlierSettled(i, ConnectCatchSettle(earlier.sub[i], i))
  /\ UNCHANGED <<clientIds, op, proxyList, encrypted, before, sub, promise, repeatOf,
                 connected, last>>

EarlierDisconnectSettled(i, ok) ==
  /\ EarlierPending("disconnect", i)
  /\ clientIds' = DisconnectCleanup(clientIds, earlier.list[i], ok)
  /\ earlier' = EarlierSettled(i, Fulfilled(earlier.sub[i], IF ok THEN Ok ELSE Error,
                                            DisconnectOutcome(i)))
  /\ UNCHANGED <<op, proxyList, encrypted, before, sub, promise, repeatOf, connected, last>>

\* connectToSPDZ and disconnectFromSPDZ, with connectToSPDZ also called while
\* one of them is pending.
NextOverlap ==
  \/ Idle /\ \E list \in OverlapLists : connectToSPDZ(list)
  \/ Idle /\ \E list \in OverlapLists : disconnectFromSPDZ(list)
  \/ Overlappable /\ \E list \in OverlapLists : connectToSPDZWhilePending(list)
  \/ \E i \in Positions(sub), id \in Ids : ConnectThen(i, id)
  \/ \E i \in Positions(sub) : ConnectCatch(i)
  \/ \E i \in Positions(sub), ok \in BOOLEAN : DisconnectSettled(i, ok)
  \/ \E i \in Positions(earlier.sub), id \in Ids : EarlierConnectThen(i, id)
  \/ \E i \in Positions(earlier.sub) : EarlierConnectCatch(i)
  \/ \E i \in Positions(earlier.sub), ok \in BOOLEAN : EarlierDisconnectSettled(i, ok)
  \/ Return

SpecOverlap == Init /\ [][NextOverlap]_vars

\* ===================================================================== claims

Resolved == promise.state = "resolved"
RejectedCall == promise.state = "rejected"
HadSession(i) == proxyList[i] \in DOMAIN before
StatusOf(i) == promise.value[i].status

\* C1: when connectToSPDZ, checkProxies or disconnectFromSPDZ resolves, the
\* value has one outcome per list entry, the outcome at position i has id i
\* (0-based) and is the one built for the entry at position i: its status is
\* the one that entry's own request (or missing client id) leads to. With a
\* valid list none of the three rejects.
C1_OwnStatus(i) ==
  CASE op = "connect" ->
         StatusOf(i) = (IF sub[i].resp.kind = "ok" THEN Connected ELSE Failure)
    [] op = "check" ->
         StatusOf(i) = (IF ~HadSession(i) THEN Failure
                        ELSE IF sub[i].resp.kind = "ok" THEN Connected
                        ELSE Disconnected)
    [] op = "disconnect" ->
         StatusOf(i) = Disconnected /\ (sub[i].sent <=> HadSession(i))
C1_PositionalOutcomes ==
  op \in StatusOps =>
    /\ verifyRequiredKeys(proxyList) => ~RejectedCall
    /\ Resolved =>
         /\ Len(promise.value) = Len(proxyList)
         /\ \A i \in 1..Len(proxyList) :
              /\ promise.value[i].id = i - 1
              /\ promise.value[i] = sub[i].val
              /\ C1_OwnStatus(i)
C1_Witness ==
  /\ op = "check"
  /\ Resolved
  /\ Len(promise.value) = MaxLen
  /\ StatusOf(1) = Failure
  /\ StatusOf(2) = Disconnected
  /\ StatusOf(MaxLen) = Connected

\* C2: allProxiesConnected returns true exactly for a non-empty list whose
\* statuses are all Connected: whenever the caller applies it to a resolved
\* outcome list, that is what it returns.
C2_AllConnectedSpec(list) ==
  /\ Len(list) > 0
  /\ \A i \in 1..Len(list) : list[i].status = Connected
C2_AllConnectedIff ==
  [][(Resolved /\ connected' # {}) =>
       connected' = {C2_AllConnectedSpec(promise.value)}]_vars

\* C3: once disconnectFromSPDZ has resolved, no url of its list has a client
\* id in the store, whether the proxy's disconnect resolved or rejected.
C3_DisconnectClearsStore ==
  (op = "disconnect" /\ Resolved) =>
    \A i \in 1..Len(proxyList) : ~clientIdExists(clientIds, proxyList[i])
C3_Witness ==
  /\ op = "disconnect"
  /\ Resolved
  /\ \E i, j \in 1..Len(proxyList) :
       /\ HadSession(i) /\ sub[i].resp = Ok
       /\ HadSession(j) /\ sub[j].resp = Error
  /\ clientIds # <<>>

\* C4: consumeDataFromProxies called with a list in which some entry has no
\* client id in the store is rejected, from its return on; it never resolves.
C4_ConsumeRejectsWithoutSession ==
  (op = "consume" /\ \E i \in 1..Len(proxyList) : ~HadSession(i)) => RejectedCall
C4_Witness ==
  /\ op = "consume"
  /\ verifyRequiredKeys(proxyList)
  /\ \E i, j \in 1..Len(proxyList) :
       /\ ~HadSession(i)
       /\ HadSession(j) /\ sub[j].sent
  /\ promise.value \in {NotConnectedError(u) : u \in Urls}

\* C5: once a connectToSPDZ round has resolved, the store holds that round
\* only: a url some position of the round connected maps to a client id the
\* round returned for it, and any other url (absent from the round, or failed
\* in it) has none, whatever the store held when the round was called.
C5_Won(u) == {i \in 1..Len(proxyList) : proxyList[i] = u /\ sub[i].resp.kind = "ok"}
C5_SecondRoundOnly ==
  (op = "connect" /\ Resolved) =>
    \A u \in Urls :
      IF C5_Won(u) = {}
        THEN ~clientIdExists(clientIds, u)
        ELSE /\ clientIdExists(clientIds, u)
             /\ clientIds[u] \in {sub[i].resp.id : i \in C5_Won(u)}
C5_Witness ==
  /\ op = "connect"
  /\ Resolved
  /\ \E u, v, w \in DOMAIN before :
       /\ C5_Won(u) # {} /\ clientIdExists(clientIds, u)
       /\ \A i \in 1..Len(proxyList) : proxyList[i] # v
       /\ ~clientIdExists(clientIds, v)
       /\ \E i \in 1..Len(proxyList) : proxyList[i] = w
       /\ C5_Won(w) = {} /\ ~clientIdExists(clientIds, w)

\* C6: in connectToSPDZ, the handler of position i stores the returned client
\* id under that position's url and yields Connected when connectProxyToEngine
\* resolved, and yields Failure, leaving the store alone, when it rejected; the
\* call never rejects and resolves once every position has settled. For
\* [A, B, C] with only B failing the value is [Connected, Failure, Connected]
\* and allProxiesConnected of it is false.
C6_Handler(i) ==
  (sub[i].st = "pending" /\ sub'[i].st # "pending") =>
    /\ sub'[i].st = "fulfilled"
    /\ IF sub'[i].resp.kind = "ok"
         THEN /\ clientIdExists(clientIds', proxyList[i])
              /\ clientIds'[proxyList[i]] = sub'[i].resp.id
              /\ sub'[i].val = [id |-> i - 1, status |-> Connected,
                                clientId |-> sub'[i].resp.id]
         ELSE /\ clientIds' = clientIds
              /\ sub'[i].val = [id |-> i - 1, status |-> Failure]
C6_Settled ==
  /\ ~RejectedCall
  /\ Resolved <=> \A i \in 1..Len(proxyList) : sub[i].st # "pending"
  /\ (Resolved /\ \E i \in 1..Len(proxyList) : sub[i].resp.kind = "error") =>
       ~allProxiesConnected(promise.value)
  /\ (/\ Resolved
      /\ proxyList = <<"A", "B", "C">>
      /\ [i \in 1..Len(sub) |-> sub[i].resp.kind] = <<"ok", "error", "ok">>) =>
       [i \in 1..Len(proxyList) |-> StatusOf(i)] = <<Connected, Failure, Connected>>
C6_ConnectPerPosition ==
  [][(op' = "connect") =>
       /\ C6_Settled'
       /\ op = "connect" => \A i \in 1..Len(proxyList) : C6_Handler(i)]_vars
C6_Witness ==
  /\ op = "connect"
  /\ Resolved
  /\ proxyList = <<"A", "B", "C">>
  /\ [i \in 1..Len(sub) |-> sub[i].resp.kind] = <<"ok", "error", "ok">>
  /\ DOMAIN clientIds = {"A", "C"}

\* C7: in checkProxies the status of a position is Failure, with no request
\* made, when its url had no client id at the call; otherwise the request
\* carries the stored client id and the status is Connected when
\* checkEngineConnection resolved and Disconnected when it rejected.
C7_Position(i) ==
  IF ~HadSession(i)
    THEN sub[i] = PromiseResolve([id |-> i - 1, status |-> Failure])
    ELSE /\ sub[i].sent
         /\ sub[i].sid = {before[proxyList[i]]}
         /\ CASE sub[i].resp.kind = "none" -> sub[i].st = "pending"
              [] sub[i].resp.kind = "ok" ->
                   /\ sub[i].st = "fulfilled"
                   /\ sub[i].val = [id |-> i - 1, status |-> Connected]
              [] sub[i].resp.kind = "error" ->
                   /\ sub[i].st = "fulfilled"
                   /\ sub[i].val = [id |-> i - 1, status |-> Disconnected]
C7_CheckStatus ==
  op = "check" =>
    /\ Len(sub) = Len(proxyList)
    /\ \A i \in 1..Len(proxyList) : C7_Position(i)
    /\ Resolved => promise.value = [i \in 1..Len(sub) |-> sub[i].val]
C7_Witness ==
  /\ op = "check"
  /\ Resolved
  /\ \E i, j, k \in 1..Len(proxyList) :
       /\ StatusOf(i) = Failure /\ ~HadSession(i)
       /\ StatusOf(j) = Connected /\ sub[j].resp = Ok
       /\ StatusOf(k) = Disconnected /\ sub[k].resp = Error

\* C8: disconnectFromSPDZ, consumeDataFromProxies and sendInputsToProxies
\* called with a list that has an entry without url reject with the
\* validation error, make no request for any entry, and leave the store as it
\* was.
C8_HasInvalidEntry == \E i \in 1..Len(proxyList) : proxyList[i] = NoUrl
C8_ValidationRejects ==
  (op \in {"disconnect", "consume", "send"} /\ C8_HasInvalidEntry) =>
    /\ promise = [state |-> "rejected", value |-> ValidationError]
    /\ \A i \in 1..Len(sub) : ~sub[i].sent
    /\ clientIds = before
C8_Witness ==
  /\ op = "send"
  /\ C8_HasInvalidEntry
  /\ \E i \in 1..Len(proxyList) : HadSession(i)
  /\ RejectedCall

\* C9: a check, consume, disconnect or send request goes to a proxy only for
\* a url that has a client id in the store when the function is called, and
\* carries that client id; for a url without one no request is made.
C9_RequestsNeedSession ==
  op \in {"check", "consume", "disconnect", "send"} =>
    \A i \in 1..Len(sub) :
      IF HadSession(i)
        THEN sub[i].sent => sub[i].sid = {before[proxyList[i]]}
        ELSE ~sub[i].sent
C9_Witness ==
  /\ op = "send"
  /\ \E i, j \in 1..Len(sub) :
       /\ ~HadSession(i) /\ ~sub[i].sent
       /\ HadSession(j) /\ sub[j].sent /\ sub[j].sid = {before[proxyList[j]]}

\* C10: disconnectFromSPDZ with a valid list never rejects and resolves to
\* Disconnected at every position; called again on the same list right after
\* it resolved, it resolves to the same value, makes no request and leaves the
\* store as the first call left it.
C10_DisconnectIdempotent ==
  (op = "disconnect" /\ verifyRequiredKeys(proxyList)) =>
    /\ ~RejectedCall
    /\ Resolved =>
         promise.value = [i \in 1..Len(proxyList) |-> [id |-> i - 1, status |-> Disconnected]]
    /\ \A first \in repeatOf :
         /\ Resolved
         /\ promise.value = first.value
         /\ \A i \in 1..Len(sub) : ~sub[i].sent
         /\ clientIds = before
C10_Witness ==
  /\ op = "disconnect"
  /\ Resolved
  /\ Len(proxyList) > 1
  /\ \E first \in repeatOf : Cardinality(first.sent) > 1
  /\ clientIds # <<>>

\* C11: connectToSPDZ, checkProxies and disconnectFromSPDZ, called with a valid
\* list, never reject, whatever the proxies answer; the returned promise is
\* resolved exactly when every position has settled (a failure does not end
\* the call early), then with one outcome per entry; and when every request
\* eventually settles, a pending call eventually resolves.
C11_ValidStatusCall == op \in StatusOps /\ verifyRequiredKeys(proxyList)
C11_Joined ==
  C11_ValidStatusCall =>
    /\ ~RejectedCall
    /\ Resolved <=> (promise.state # "none" /\ \A i \in Positions(sub) : sub[i].st # "pending")
    /\ Resolved => Len(promise.value) = Len(proxyList)
C11_StatusCallsResolve ==
  /\ []C11_Joined
  /\ (C11_ValidStatusCall /\ promise.state = "pending") ~> (C11_ValidStatusCall /\ Resolved)
\* A connect round of full length in which every proxy failed has resolved.
C11_Witness ==
  /\ op = "connect"
  /\ Resolved
  /\ Len(proxyList) = MaxLen
  /\ \A i \in Positions(sub) : sub[i].resp.kind = "error"

\* consumeDataFromProxies was called with a valid list whose urls all had a
\* client id.
C12_AllActive ==
  /\ op = "consume"
  /\ verifyRequiredKeys(proxyList)
  /\ \A i \in Positions(proxyList) : HadSession(i)
C12_SomeNoContent == \E i \in Positions(sub) : sub[i].resp = NoContent
C12_RejectedNoContent == RejectedCall /\ promise.value = NoContentError

\* C12 as stated: with every session active, as soon as any proxy answers
\* that it has no content the call is rejected with NoContentError, and a
\* rejection with NoContentError comes only from such an answer.
C12_NoContentSurfaces ==
  C12_AllActive =>
    /\ C12_SomeNoContent => C12_RejectedNoContent
    /\ C12_RejectedNoContent => C12_SomeNoContent

\* C12, amended: the call rejects with what the first proxy to fail rejected
\* with, so it rejects with NoContentError exactly when that first failure is
\* a no-content answer; it does so whenever the only failures are no-content
\* answers, and never unless some proxy gave that answer.
C12_FirstFailure ==
  (C12_AllActive /\ promise.state = "pending" /\ promise'.state = "rejected") =>
    \E i \in Positions(sub) :
      /\ sub[i].st = "pending"
      /\ sub'[i].st = "rejected"
      /\ promise'.value = sub'[i].val
      /\ promise'.value = NoContentError <=> sub'[i].resp = NoContent
C12_OnlyNoContent ==
  C12_AllActive =>
    /\ C12_RejectedNoContent => C12_SomeNoContent
    /\ (C12_SomeNoContent /\ \A i \in Positions(sub) :
                               sub[i].st = "rejected" => sub[i].resp = NoContent)
         => C12_RejectedNoContent
C12_FirstRejectionDecides == []C12_OnlyNoContent /\ [][C12_FirstFailure]_vars
\* One proxy has delivered its bytes, another answered no content, and the
\* call is rejected with NoContentError.
C12_Witness ==
  /\ C12_AllActive
  /\ C12_RejectedNoContent
  /\ \E i, j \in Positions(sub) :
       /\ sub[i].resp = NoContent
       /\ sub[j].st = "fulfilled" /\ sub[j].resp = Ok

\* C13: consumeDataFromProxies and sendInputsToProxies resolve only when the
\* request of every position was sent, answered and (consume, encrypted)
\* decrypted, with one value per entry; once the promise of any position has
\* rejected, the call is rejected, with an error and not with a list of the
\* values that did arrive.
C13_AllOrNothing ==
  op \in {"consume", "send"} =>
    /\ Resolved =>
         /\ Len(promise.value) = Len(proxyList)
         /\ \A i \in Positions(proxyList) :
              sub[i].st = "fulfilled" /\ sub[i].sent /\ sub[i].resp = Ok
    /\ (\E i \in Positions(sub) : sub[i].st = "rejected") =>
         /\ RejectedCall
         /\ promise.value \in {sub[i].val : i \in {j \in Positions(sub) : sub[j].st = "rejected"}}
\* An encrypted consume call of full length: one proxy's bytes were decrypted,
\* another's were not, and the call is rejected.
C13_Witness ==
  /\ op = "consume"
  /\ encrypted
  /\ Len(proxyList) = MaxLen
  /\ RejectedCall
  /\ \E i, j \in Positions(sub) :
       /\ sub[i].st = "fulfilled" /\ sub[i].resp = Ok
       /\ sub[j].st = "rejected" /\ sub[j].resp = Ok /\ sub[j].val = CryptoError

\* C14: when consumeDataFromProxies is called with a list in which some url
\* has no client id, no consume request is sent to any proxy of the list,
\* the connected ones included.
C14_NoPartialConsumption ==
  (op = "consume" /\ \E i \in Positions(proxyList) : ~HadSession(i)) =>
    \A j \in Positions(sub) : ~sub[j].sent

\* C15: when consumeDataFromProxies resolves, the value at position i is the
\* bytes the proxy at the url of entry i returned to the request of position
\* i: as they came when encrypted is false, and otherwise decrypted with the
\* encryptionKey of entry i and of no other entry; this whatever the order in
\* which the proxies answered.
C15_Bytes(i) == IF encrypted THEN promise.value[i].plain ELSE promise.value[i]
C15_OwnPayload ==
  (op = "consume" /\ Resolved) =>
    /\ Len(promise.value) = Len(proxyList)
    /\ \A i \in Positions(proxyList) :
         /\ C15_Bytes(i).from = proxyList[i]
         /\ C15_Bytes(i).request = i - 1
         /\ encrypted => promise.value[i].key.keyOf = proxyList[i]
         /\ ~encrypted => promise.value[i] = Payload(proxyList[i], i)
\* An encrypted consume call for three different proxies has resolved.
C15_Witness ==
  /\ op = "consume"
  /\ encrypted
  /\ Resolved
  /\ Len(proxyList) = MaxLen
  /\ \A i, j \in Positions(proxyList) : i # j => proxyList[i] # proxyList[j]

\* C16 as stated: in one connectToSPDZ round no two positions write the same
\* key of the store, also when a url is listed at two positions.
C16_NoSharedKey ==
  op = "connect" =>
    \A i, j \in Positions(sub) :
      (i # j /\ sub[i].resp.kind = "ok" /\ sub[j].resp.kind = "ok")
        => proxyList[i] # proxyList[j]

\* C16, amended: in a connectToSPDZ round the store is written only by the
\* then handler of a position, which writes the id it received under the url
\* of its own entry and nothing else; when the urls of the list are pairwise
\* different, that key was not written before in the round. (A url listed
\* twice is written by both positions, the later answer overwriting.)
C16_Distinct ==
  \A i, j \in Positions(proxyList) : i # j => proxyList[i] # proxyList[j]
C16_Settles(i) == sub[i].st = "pending" /\ sub'[i].st # "pending"
C16_OwnWrite(i) ==
  IF sub'[i].resp.kind = "ok"
    THEN /\ DOMAIN clientIds' = DOMAIN clientIds \cup {proxyList[i]}
         /\ clientIds'[proxyList[i]] = sub'[i].resp.id
         /\ \A u \in DOMAIN clientIds \ {proxyList[i]} : clientIds'[u] = clientIds[u]
         /\ C16_Distinct => proxyList[i] \notin DOMAIN clientIds
    ELSE clientIds' = clientIds
C16_OwnKeyWrites ==
  [][(op = "connect" /\ op' = "connect") =>
       /\ \A i \in Positions(sub) : C16_Settles(i) => C16_OwnWrite(i)
       /\ clientIds' # clientIds => \E i \in Positions(sub) : C16_Settles(i)]_vars
\* A round over three different urls in which two positions have stored their
\* ids and the third is still pending.
C16_Witness ==
  /\ op = "connect"
  /\ C16_Distinct
  /\ Len(proxyList) = MaxLen
  /\ \E i, j, k \in Positions(sub) :
       /\ i # j
       /\ sub[i].resp.kind = "ok" /\ clientIds[proxyList[i]] = sub[i].resp.id
       /\ sub[j].resp.kind = "ok" /\ clientIds[proxyList[j]] = sub[j].resp.id
       /\ sub[k].st = "pending"

\* C17 as stated: once a connectToSPDZ round has resolved, the url of every
\* position whose outcome is Failure has no client id in the store.
C17_FailureHasNoSession ==
  (op = "connect" /\ Resolved) =>
    \A i \in Positions(proxyList) :
      StatusOf(i) = Failure => ~clientIdExists(clientIds, proxyList[i])

\* C17, amended: a url gets a client id only in the then handler of a
\* connectToSPDZ position for that url, and loses it only when connectToSPDZ
\* is called (the reset) or when a disconnectFromSPDZ position for that url
\* settles; once a round has resolved, a listed url has a client id, one of
\* the known ids, exactly when some position of it is Connected. (A url whose
\* every outcome is Failure has none; a url listed twice with one position
\* Connected keeps its id although its other outcome is Failure.)
C17_SettlesFor(u) ==
  \E i \in Positions(sub) : sub[i].st = "pending" /\ sub'[i].st # "pending" /\ proxyList[i] = u
C17_Moves ==
  \A u \in Urls :
    /\ (~clientIdExists(clientIds, u) /\ clientIdExists(clientIds', u)) =>
         /\ op = "connect"
         /\ \E i \in Positions(sub) :
              /\ sub[i].st = "pending"
              /\ proxyList[i] = u
              /\ sub'[i].resp = OkId(clientIds'[u])
    /\ (clientIdExists(clientIds, u) /\ ~clientIdExists(clientIds', u)) =>
         \/ Idle /\ op' = "connect"
         \/ op = "disconnect" /\ C17_SettlesFor(u)
C17_RoundResolved ==
  (op = "connect" /\ Resolved) =>
    \A u \in {proxyList[i] : i \in Positions(proxyList)} :
      /\ clientIdExists(clientIds, u) <=>
           \E i \in Positions(proxyList) : proxyList[i] = u /\ StatusOf(i) = Connected
      /\ clientIdExists(clientIds, u) => clientIds[u] \in Ids
C17_SessionLifecycle == []C17_RoundResolved /\ [][C17_Moves]_vars
\* A round has resolved in which a url that had a client id failed and has
\* none now, and another url connected.
C17_Witness ==
  /\ op = "connect"
  /\ Resolved
  /\ \E i, j \in Positions(proxyList) :
       /\ HadSession(i) /\ StatusOf(i) = Failure
       /\ ~clientIdExists(clientIds, proxyList[i])
       /\ StatusOf(j) = Connected /\ clientIdExists(clientIds, proxyList[j])

\* The client ids the proxies returned for url u to the positions s of list.
C18_Won(list, s, u) ==
  {s[i].resp.id : i \in {j \in Positions(s) : list[j] = u /\ s[j].resp.kind = "ok"}}
C18_LaterWon(u) == C18_Won(proxyList, sub, u)
C18_EarlierWon(u) == C18_Won(earlier.list, earlier.sub, u)
\* The store is the one the outcome list of the round started last describes.
C18_MatchesLatest ==
  \A u \in Urls :
    IF C18_LaterWon(u) = {}
      THEN ~clientIdExists(clientIds, u)
      ELSE clientIdExists(clientIds, u) /\ clientIds[u] \in C18_LaterWon(u)
C18_RoundsDone ==
  op = "connect" /\ Resolved /\ earlier.op # "disconnect" /\ earlier.promise.state # "pending"

\* C18: when a connectToSPDZ round has resolved, and the round it overlapped
\* (if any) too, a store that does not match the outcome list of the round
\* started last is possible only when that round was started while an
\* earlier round had requests pending, and then every client id in the store
\* is one that a position of one of the two rounds stored; a round started
\* after the earlier one resolved always leaves a matching store. (The
\* witness is the unsafe interleaving itself.)
C18_OnlyOverlapBreaks ==
  C18_RoundsDone =>
    /\ earlier = NoCall => C18_MatchesLatest
    /\ \A u \in Urls :
         /\ C18_LaterWon(u) # {} => clientIdExists(clientIds, u)
         /\ clientIdExists(clientIds, u) =>
              clientIds[u] \in C18_LaterWon(u) \cup C18_EarlierWon(u)
\* The later round reset the store while the earlier round's request was
\* pending; both rounds have resolved and the store holds, for some url, an
\* id the earlier round stored and the later round did not.
C18_Witness ==
  /\ C18_RoundsDone
  /\ earlier.op = "connect"
  /\ ~C18_MatchesLatest
  /\ \E u \in Urls :
       /\ clientIdExists(clientIds, u)
       /\ clientIds[u] \in C18_EarlierWon(u) \ C18_LaterWon(u)

\* C19: when the handler of a disconnectFromSPDZ position runs after a
\* connectToSPDZ round, started in between, stored a new client id for the
\* same url, it leaves that new client id in the store: it removes only the
\* client id its own request carried.
C19_StaleFor(i) ==
  /\ earlier.op = "disconnect"
  /\ earlier.sub[i].st = "pending"
  /\ earlier'.op = "disconnect"
  /\ earlier'.sub[i].st # "pending"
  /\ clientIdExists(clientIds, earlier.list[i])
  /\ {clientIds[earlier.list[i]]} # earlier.sub[i].sid
C19_StaleDisconnectKeepsNewSession ==
  [][\A i \in Positions(earlier.sub) :
       C19_StaleFor(i) =>
         /\ clientIdExists(clientIds', earlier.list[i])
         /\ clientIds'[earlier.list[i]] = clientIds[earlier.list[i]]]_vars

\* A consumeDataFromProxies or sendInputsToProxies call all of whose promises
\* have settled, and the same call replayed: from the promises it built on
\* the store at call time, the requests are answered as they were in this
\* run, in every order. C20_Outcomes(S, p) is what the returned promise can
\* end as when it is p and the requests of the positions S are still out (a
\* settled promise stays as it is).
C20_Done ==
  /\ op \in {"consume", "send"}
  /\ \A i \in Positions(sub) : sub[i].st # "pending"
C20_Started ==
  IF op = "consume" THEN ConsumeRun(before, proxyList) ELSE SendRun(before, proxyList)
C20_Out == {i \in Positions(C20_Started.sub) : C20_Started.sub[i].st = "pending"}
C20_SubAfter(S) ==
  [j \in Positions(sub) |-> IF j \in S THEN C20_Started.sub[j] ELSE sub[j]]
RECURSIVE C20_Outcomes(_, _)
C20_Outcomes(S, p) ==
  IF S = {} \/ p.state # "pending" THEN {p}
  ELSE UNION {C20_Outcomes(S \ {i}, PromiseAllSettle(p, C20_SubAfter(S \ {i}), i)) : i \in S}
C20_Replays == C20_Outcomes(C20_Out, C20_Started.promise)
C20_Same(p, q) == p.state = q.state /\ p.value = q.value
C20_Failures == {sub[i].val : i \in {j \in Positions(sub) : sub[j].st = "rejected"}}

\* C20 as stated: the outcome of consumeDataFromProxies and of
\* sendInputsToProxies is the same for every order in which the proxies'
\* answers are handled, the store at call time and the answers being equal.
C20_OrderIndependent ==
  C20_Done => \A q \in C20_Replays : C20_Same(q, promise)

\* C20, amended: whether the call resolves or rejects, and the value it
\* resolves with, are the same for every order of the answers; a list that
\* fails validation or has a url without client id rejects with that error
\* (the lowest such position) in every order; otherwise the call rejects
\* with the error of one of the positions that failed, the same in every
\* order when they all failed with the same error, and else the one whose
\* failure was handled first.
C20_FirstMissing ==
  CHOOSE i \in Positions(proxyList) : ~HadSession(i) /\ \A j \in 1..(i - 1) : HadSession(j)
C20_OutcomeUpToFirstFailure ==
  C20_Done =>
    /\ \A q \in C20_Replays :
         /\ q.state = promise.state
         /\ Resolved => C20_Same(q, promise)
         /\ (RejectedCall /\ (C20_Started.promise.state = "rejected"
                              \/ Cardinality(C20_Failures) = 1))
              => C20_Same(q, promise)
    /\ RejectedCall => promise.value \in C20_Failures \cup {ValidationError}
    /\ ~verifyRequiredKeys(proxyList) => (RejectedCall /\ promise.value = ValidationError)
    /\ (verifyRequiredKeys(proxyList) /\ \E i \in Positions(proxyList) : ~HadSession(i))
         => (RejectedCall /\ promise.value = NotConnectedError(proxyList[C20_FirstMissing]))
\* A consume call has ended in which one proxy answered no content and
\* another failed, the call being rejected with NoContentError: in the other
\* order it is rejected with the other error.
C20_Witness ==
  /\ C20_Done
  /\ op = "consume"
  /\ RejectedCall
  /\ promise.value = NoContentError
  /\ \E i, j \in Positions(sub) : sub[i].resp = NoContent /\ sub[j].resp = Error
  /\ \E q \in C20_Replays : q.value = TransportError

\* C21: checkProxies, consumeDataFromProxies, sendInputsToProxies and
\* allProxiesConnected never change the store, whatever their outcome: during
\* such a call the store is the one it was called on, and a step that changes
\* the store is the reset of a connectToSPDZ call, the then handler of a
\* connectToSPDZ position, or a handler of a disconnectFromSPDZ position.
C21_ReadOnly == {"check", "consume", "send"}
C21_StoreAsCalled == op \in C21_ReadOnly => clientIds = before
C21_Settling ==
  \E i \in Positions(sub) : sub[i].st = "pending" /\ sub'[i].st # "pending"
C21_Frame ==
  /\ (op \in C21_ReadOnly \/ op' \in C21_ReadOnly) => clientIds' = clientIds
  /\ connected' # {} => clientIds' = clientIds
  /\ clientIds' # clientIds =>
       \/ Idle /\ op' = "connect"
       \/ op = "connect" /\ op' = "connect" /\ C21_Settling
       \/ op = "disconnect" /\ op' = "disconnect" /\ C21_Settling
C21_StoreFrame == []C21_StoreAsCalled /\ [][C21_Frame]_vars
\* A check has resolved reporting a proxy Disconnected, and the client id of
\* that proxy is still in the store.
C21_Witness ==
  /\ op = "check"
  /\ Resolved
  /\ clientIds = before
  /\ \E i \in Positions(proxyList) :
       /\ StatusOf(i) = Disconnected
       /\ clientIdExists(clientIds, proxyList[i])

====
